---- MODULE Spec2Model ----
(***************************************************************************)
(* csv-line: the field scanner CsvRow (src/src/parse.rs) as a state        *)
(* machine.  A line is a sequence of characters; every position the code   *)
(* keeps (ch_pos, column_start, unquoted_start) is a BYTE offset into the  *)
(* UTF-8 text, so characters carry their encoded length and a slice whose  *)
(* ends are not character boundaries panics, as str indexing does.         *)
(***************************************************************************)
EXTENDS Integers, Sequences, FiniteSets, TLC

\* Longest raw input line, in characters.
MaxLen == 4
\* How many times the caller polls next() again after it has returned None.
MaxNone == 2

---------------------------------------------------------------------------
\* Characters.
Letter == "a"
Comma  == ","
Quote  == "\""
LF     == "\n"
CR     == "\r"
\* a character whose UTF-8 encoding takes two bytes
EAcute == "e-acute"

Alphabet   == {Letter, Comma, Quote, LF, CR, EAcute}
Delimiters == Alphabet

\* char::len_utf8
len_utf8(c) == IF c = EAcute THEN 2 ELSE 1

\* str::len: the length of the text in bytes
RECURSIVE str_len(_)
str_len(s) == IF s = <<>> THEN 0 ELSE len_utf8(Head(s)) + str_len(Tail(s))

\* byte offset of the character after the first n characters
byte_offset(s, n) == str_len(SubSeq(s, 1, n))

\* str::is_char_boundary
is_char_boundary(s, b) == \E n \in 0..Len(s) : byte_offset(s, n) = b

\* &s[start..end] is defined (does not panic)
SliceOk(s, start, end) ==
    /\ start <= end
    /\ is_char_boundary(s, start)
    /\ is_char_boundary(s, end)

\* &s[start..end], for SliceOk(s, start, end)
Slice(s, start, end) ==
    LET n(b) == CHOOSE k \in 0..Len(s) : byte_offset(s, k) = b
    IN  SubSeq(s, n(start) + 1, n(end))

\* Option, Cow and the unwinding of a panic
None        == [tag |-> "None"]
Some(v)     == [tag |-> "Some", val |-> v]
Panic       == [tag |-> "Panic"]
Continue    == [tag |-> "Continue"]
Borrowed(s) == [tag |-> "Borrowed", str |-> s]
Owned(s)    == [tag |-> "Owned", str |-> s]

SomeOrPanic(c) == IF c.tag = "Panic" THEN Panic ELSE Some(c)

\* enum ParseState
NewField           == [tag |-> "NewField"]
UnquotedField      == [tag |-> "UnquotedField"]
QuotedField        == [tag |-> "QuotedField"]
QuoteInQuotedField == [tag |-> "QuoteInQuotedField"]
UnquotedDataAfterQuotedField(start) ==
    [tag |-> "UnquotedDataAfterQuotedField", unquoted_start |-> start]

---------------------------------------------------------------------------
\* CsvRow::new with a delimiter length of one byte whatever the delimiter
new_one_byte_delimiter(line, delimiter) ==
    [line |-> line, delimiter |-> delimiter, delimiter_len |-> 1,
     char_indices |-> 0, column_start |-> 0, done |-> FALSE,
     column_needs_unescaping |-> FALSE]

\* CsvRow::new.  char_indices is the number of characters already yielded.
new(line, delimiter) ==
    [line |-> line, delimiter |-> delimiter,
     delimiter_len |-> len_utf8(delimiter),
     char_indices |-> 0, column_start |-> 0, done |-> FALSE,
     column_needs_unescaping |-> FALSE]

\* content.replace: no pair is collapsed
replace_nothing(s) == s

\* content.replace("\"\"", "\""): left to right, non-overlapping
RECURSIVE replace(_)
replace(s) ==
    IF Len(s) < 2 THEN s
    ELSE IF s[1] = Quote /\ s[2] = Quote
         THEN <<Quote>> \o replace(SubSeq(s, 3, Len(s)))
         ELSE <<s[1]>> \o replace(Tail(s))

\* maybe_unescape that always copies
maybe_unescape_always_owned(self, start, end) ==
    IF ~SliceOk(self.line, start, end) THEN Panic
    ELSE Owned(replace(Slice(self.line, start, end)))

\* maybe_unescape that never looks at the flag: always the borrowed slice
maybe_unescape_borrows(self, start, end) ==
    IF ~SliceOk(self.line, start, end) THEN Panic
    ELSE Borrowed(Slice(self.line, start, end))

\* CsvRow::maybe_unescape
maybe_unescape(self, start, end) ==
    IF ~SliceOk(self.line, start, end) THEN Panic
    ELSE LET content == Slice(self.line, start, end)
         IN  IF self.column_needs_unescaping
             THEN Owned(replace(content))
             ELSE Borrowed(content)

\* format_partially_unquoted whose quoted part runs up to unquoted_start, the
\* closing quote included
format_partially_unquoted_keeps_quote(self, unquoted_start, end) ==
    LET quoted == maybe_unescape(self, self.column_start + 1, unquoted_start)
    IN  IF quoted.tag = "Panic" \/ ~SliceOk(self.line, unquoted_start, end)
        THEN Panic
        ELSE Owned(quoted.str \o Slice(self.line, unquoted_start, end))

\* CsvRow::format_partially_unquoted
format_partially_unquoted(self, unquoted_start, end) ==
    LET quoted == maybe_unescape(self, self.column_start + 1, unquoted_start - 1)
    IN  IF quoted.tag = "Panic" \/ ~SliceOk(self.line, unquoted_start, end)
        THEN Panic
        ELSE Owned(quoted.str \o Slice(self.line, unquoted_start, end))

\* what one pass of the loop leaves: the row, the local state, and what it
\* returns (Continue when the loop goes round again)
Return(self, value)  == [self |-> self, state |-> NewField, ret |-> value]
GoOn(self, state)    == [self |-> self, state |-> state, ret |-> Continue]

\* the empty column is added whatever the last character is
ends_with_delimiter_always(self) == TRUE

\* the empty column is never added
ends_with_delimiter_never(self) == FALSE

\* the first character of the line is compared, not the last
ends_with_delimiter_first(self) ==
    /\ self.line # <<>>
    /\ self.line[1] = self.delimiter

\* the last character is compared with a comma, not with the delimiter
ends_with_comma(self) ==
    /\ self.line # <<>>
    /\ self.line[Len(self.line)] = Comma

\* self.line.chars().last() == Some(self.delimiter)
ends_with_delimiter(self) ==
    /\ self.line # <<>>
    /\ self.line[Len(self.line)] = self.delimiter

\* the end of the line is reached and done stays as it was
mark_done_forgets(self) == self

\* self.done = true, at the end of the line
mark_done(self) == [self EXCEPT !.done = TRUE]

\* char_indices.next() returned None: the end of the line
end_of_line(self, state) ==
    LET s     == mark_done(self)
        len   == str_len(self.line)
        value ==
          CASE state.tag = "NewField" ->
                 IF ends_with_delimiter(s) THEN Some(Borrowed(<<>>)) ELSE None
            [] state.tag = "UnquotedField" ->
                 IF SliceOk(s.line, s.column_start, len)
                 THEN Some(Borrowed(Slice(s.line, s.column_start, len)))
                 ELSE Panic
            [] state.tag = "QuotedField" ->
                 SomeOrPanic(maybe_unescape(s, s.column_start + 1, len))
            [] state.tag = "QuoteInQuotedField" ->
                 SomeOrPanic(maybe_unescape(s, s.column_start + 1, len - 1))
            [] state.tag = "UnquotedDataAfterQuotedField" ->
                 SomeOrPanic(format_partially_unquoted(s, state.unquoted_start, len))
    IN  Return(s, value)

\* only LF counts as a line break
is_line_break_lf_only(ch) == ch = LF

\* ch == '\n' || ch == '\r'
is_line_break(ch) == ch = LF \/ ch = CR

\* the arm NewField that returns the empty field and leaves column_start
on_NewField_keeps_column_start(self, ch_pos, ch) ==
    IF ch = self.delimiter
    THEN Return(self, Some(Borrowed(<<>>)))
    ELSE IF ch = Quote
         THEN GoOn(self, QuotedField)
         ELSE GoOn(self, UnquotedField)

\* match arm ParseState::NewField
on_NewField(self, ch_pos, ch) ==
    IF ch = self.delimiter
    THEN Return([self EXCEPT !.column_start = ch_pos + self.delimiter_len],
                Some(Borrowed(<<>>)))
    ELSE IF ch = Quote
         THEN GoOn(self, QuotedField)
         ELSE GoOn(self, UnquotedField)

\* the arm UnquotedField in which a quote opens quoting
on_UnquotedField_quote_opens(self, ch_pos, ch) ==
    LET column == IF SliceOk(self.line, self.column_start, ch_pos)
                  THEN Some(Borrowed(Slice(self.line, self.column_start, ch_pos)))
                  ELSE Panic
    IN  IF ch = self.delimiter
        THEN Return([self EXCEPT !.column_start = ch_pos + self.delimiter_len],
                    column)
        ELSE IF is_line_break(ch)
             THEN Return([self EXCEPT !.done = TRUE], column)
             ELSE IF ch = Quote
                  THEN GoOn(self, QuotedField)
                  ELSE GoOn(self, UnquotedField)

\* match arm ParseState::UnquotedField
on_UnquotedField(self, ch_pos, ch) ==
    LET column == IF SliceOk(self.line, self.column_start, ch_pos)
                  THEN Some(Borrowed(Slice(self.line, self.column_start, ch_pos)))
                  ELSE Panic
    IN  IF ch = self.delimiter
        THEN Return([self EXCEPT !.column_start = ch_pos + self.delimiter_len],
                    column)
        ELSE IF is_line_break(ch)
             THEN Return([self EXCEPT !.done = TRUE], column)
             ELSE GoOn(self, UnquotedField)

\* a line break closes the quoted field and the line
on_QuotedField_line_break_ends(self, ch_pos, ch) ==
    IF ch = Quote
    THEN GoOn(self, QuoteInQuotedField)
    ELSE IF is_line_break(ch)
         THEN Return([self EXCEPT !.done = TRUE],
                     SomeOrPanic(maybe_unescape(self, self.column_start + 1, ch_pos)))
         ELSE GoOn(self, QuotedField)

\* match arm ParseState::QuotedField
on_QuotedField(self, ch_pos, ch) ==
    IF ch = Quote
    THEN GoOn(self, QuoteInQuotedField)
    ELSE GoOn(self, QuotedField)

\* the arm QuoteInQuotedField that does not record the escaped quote
on_QuoteInQuotedField_forgets_flag(self, ch_pos, ch) ==
    IF ch = Quote
    THEN GoOn(self, QuotedField)
    ELSE IF ch = self.delimiter
    THEN Return([self EXCEPT !.column_start = ch_pos + self.delimiter_len],
                SomeOrPanic(maybe_unescape(self, self.column_start + 1, ch_pos - 1)))
    ELSE IF ch = LF \/ ch = CR
    THEN Return([self EXCEPT !.done = TRUE],
                SomeOrPanic(maybe_unescape(self, self.column_start + 1, ch_pos - 1)))
    ELSE GoOn(self, UnquotedDataAfterQuotedField(ch_pos))

\* match arm ParseState::QuoteInQuotedField
on_QuoteInQuotedField(self, ch_pos, ch) ==
    IF ch = Quote
    THEN GoOn([self EXCEPT !.column_needs_unescaping = TRUE], QuotedField)
    ELSE IF ch = self.delimiter
    THEN Return([self EXCEPT !.column_start = ch_pos + self.delimiter_len],
                SomeOrPanic(maybe_unescape(self, self.column_start + 1, ch_pos - 1)))
    ELSE IF ch = LF \/ ch = CR
    THEN Return([self EXCEPT !.done = TRUE],
                SomeOrPanic(maybe_unescape(self, self.column_start + 1, ch_pos - 1)))
    ELSE GoOn(self, UnquotedDataAfterQuotedField(ch_pos))

\* match arm ParseState::UnquotedDataAfterQuotedField
on_UnquotedDataAfterQuotedField(self, unquoted_start, ch_pos, ch) ==
    IF ch = self.delimiter
    THEN Return([self EXCEPT !.column_start = ch_pos + self.delimiter_len],
                SomeOrPanic(format_partially_unquoted(self, unquoted_start, ch_pos)))
    ELSE GoOn(self, UnquotedDataAfterQuotedField(unquoted_start))

\* match state { ... } on the character (ch_pos, ch)
match_state(self, state, ch_pos, ch) ==
    CASE state.tag = "NewField"           -> on_NewField(self, ch_pos, ch)
      [] state.tag = "UnquotedField"      -> on_UnquotedField(self, ch_pos, ch)
      [] state.tag = "QuotedField"        -> on_QuotedField(self, ch_pos, ch)
      [] state.tag = "QuoteInQuotedField" -> on_QuoteInQuotedField(self, ch_pos, ch)
      [] state.tag = "UnquotedDataAfterQuotedField" ->
           on_UnquotedDataAfterQuotedField(self, state.unquoted_start, ch_pos, ch)

\* a pass of the loop that steps the cursor back after returning the field
\* that ends at the last character of the line
loop_pass_rereads(self, state) ==
    IF self.done THEN Return(self, None)
    ELSE IF self.char_indices = Len(self.line) THEN end_of_line(self, state)
    ELSE LET r == match_state([self EXCEPT !.char_indices = @ + 1], state,
                     byte_offset(self.line, self.char_indices),
                     self.line[self.char_indices + 1])
         IN  IF r.ret.tag = "Some" /\ r.self.char_indices = Len(self.line)
             THEN [r EXCEPT !.self.char_indices = @ - 1]
             ELSE r

\* one pass of the loop: the done test, char_indices.next(), the match
loop_pass(self, state) ==
    IF self.done THEN Return(self, None)
    ELSE IF self.char_indices = Len(self.line) THEN end_of_line(self, state)
    ELSE match_state([self EXCEPT !.char_indices = @ + 1], state,
                     byte_offset(self.line, self.char_indices),
                     self.line[self.char_indices + 1])

\* loop { ... } until a return
RECURSIVE loop(_, _)
loop(self, state) ==
    LET r == loop_pass(self, state)
    IN  IF r.ret.tag = "Continue" THEN loop(r.self, r.state)
        ELSE [self |-> r.self, ret |-> r.ret]

\* the flag is not cleared on entry
next_keeps_flag(self) == loop(self, NewField)

\* Iterator::next for CsvRow
next(self) == loop([self EXCEPT !.column_needs_unescaping = FALSE], NewField)

\* What the loop read during one call, in order: for each result of
\* char_indices.next() the local state it was matched in ("EOF" for None).
EOF == "EOF"
RECURSIVE scan(_, _)
scan(self, state) ==
    IF self.done THEN <<>>
    ELSE LET r == loop_pass(self, state)
             e == IF self.char_indices = Len(self.line)
                  THEN [state |-> state.tag, ch |-> EOF,
                        ch_pos |-> str_len(self.line)]
                  ELSE [state |-> state.tag,
                        ch |-> self.line[self.char_indices + 1],
                        ch_pos |-> byte_offset(self.line, self.char_indices)]
         IN  IF r.ret.tag = "Continue" THEN <<e>> \o scan(r.self, r.state)
             ELSE <<e>>

\* the record is built back to front
RECURSIVE collect_reversed(_)
collect_reversed(self) ==
    LET r == next(self)
    IN  CASE r.ret.tag = "Some"  -> collect_reversed(r.self) \o <<r.ret.val.str>>
          [] r.ret.tag = "None"  -> <<>>
          [] r.ret.tag = "Panic" -> << <<"panic">> >>

\* StringRecord::from_iter(CsvRow::new(s, separator)): the fields in order
\* (cut short by a panic marker if a call panics)
RECURSIVE collect(_)
collect(self) ==
    LET r == next(self)
    IN  CASE r.ret.tag = "Some"  -> <<r.ret.val.str>> \o collect(r.self)
          [] r.ret.tag = "None"  -> <<>>
          [] r.ret.tag = "Panic" -> << <<"panic">> >>

---------------------------------------------------------------------------
\* Inputs.
Lines(A, n) == UNION {[1..k -> A] : k \in 0..n}

\* a sequence cut at every occurrence of sep
RECURSIVE Split(_, _)
Split(s, sep) ==
    IF \A i \in 1..Len(s) : s[i] # sep THEN <<s>>
    ELSE LET i == CHOOSE j \in 1..Len(s) :
                    s[j] = sep /\ \A k \in 1..(j - 1) : s[k] # sep
         IN  <<SubSeq(s, 1, i - 1)>> \o Split(SubSeq(s, i + 1, Len(s)), sep)

\* RFC 4180 encoding of a field: wrapped in quotes, every quote doubled
RECURSIVE DoubleQuotes(_)
DoubleQuotes(f) ==
    IF f = <<>> THEN <<>>
    ELSE (IF Head(f) = Quote THEN <<Quote, Quote>> ELSE <<Head(f)>>)
         \o DoubleQuotes(Tail(f))

EncodeField(f) == <<Quote>> \o DoubleQuotes(f) \o <<Quote>>

RECURSIVE EncodeRecord(_, _)
EncodeRecord(fs, d) ==
    IF Len(fs) = 1 THEN EncodeField(fs[1])
    ELSE EncodeField(fs[1]) \o <<d>> \o EncodeRecord(Tail(fs), d)

\* The records to encode: every way to write at most MaxLen characters and
\* field breaks as a non-empty sequence of fields.
Break == "|"
Records == {Split(l, Break) : l \in Lines(Alphabet \cup {Break}, MaxLen)}
EncodingDelimiters == {Comma, EAcute, LF}

---------------------------------------------------------------------------
\* Decode Facade (src/src/lib.rs).
\* impl Default for CSVLine, with another separator than the comma
CSVLine_default_other == [separator |-> Letter]

\* impl Default for CSVLine
CSVLine_default == [separator |-> Comma]

\* CSVLine::new
CSVLine_new == CSVLine_default

\* with_separator that leaves the separator as it was
with_separator_ignored(self, separator) == self

\* CSVLine::with_separator
with_separator(self, separator) == [self EXCEPT !.separator = separator]

\* Result, and the one error kind Error::Csv wrapping a csv::Error
Ok(v)        == [tag |-> "Ok", val |-> v]
Err(e)       == [tag |-> "Err", err |-> e]

\* the error is replaced by a fresh one, its cause lost
Error_Csv_loses_source(e) ==
    [kind |-> "Csv",
     source |-> [mismatch |-> "unknown", expected |-> 0, found |-> 0]]

\* Error::Csv(#[from] csv::Error)
Error_Csv(e) == [kind |-> "Csv", source |-> e]

\* The external deserializer, for the target "tuple of T strings": it takes
\* the fields in order and reports a field-count mismatch.
deserialize(record, T) ==
    IF Len(record) = T THEN Ok(record)
    ELSE Err([mismatch |-> "field count", expected |-> T, found |-> Len(record)])

\* Ok(record.deserialize(None)?)
ok_or_convert(r) == IF r.tag = "Ok" THEN Ok(r.val) ELSE Err(Error_Csv(r.err))

\* CSVLine::decode_str
decode_str(self, s, T) ==
    LET record == collect(new(s, self.separator))
    IN  IF record # <<>> /\ record[Len(record)] = <<"panic">> THEN Panic
        ELSE ok_or_convert(deserialize(record, T))

\* from_str
from_str(s, T) == decode_str(CSVLine_new, s, T)

\* from_str_sep
from_str_sep(s, sep, T) == decode_str(with_separator(CSVLine_new, sep), s, T)

\* Longest line handed to the facade, and the largest target tuple.
MaxFacadeLen == 2
MaxArity == 2
\* Longest line of each of two rows scanned side by side.
MaxPairLen == 2
PairAlphabet   == {Letter, Comma, Quote}
PairDelimiters == {Comma, Letter}

---------------------------------------------------------------------------
VARIABLES
    row,      \* the CsvRow
    ret,      \* what the last call of next() returned (None before any call)
    out,      \* the fields returned so far, in order
    nones,    \* the calls that returned None
    hist,     \* per call: the row on entry, what the loop read, the result
    encoded,  \* the record the line was encoded from (<<>>: a raw line)
    other,    \* a second CsvRow with its own owner: row, ret, out, nones, calls
    args,     \* the arguments the facade's caller uses: s, sep, T
    parser,   \* the caller's CSVLine
    configured, \* with_separator has been applied to parser
    result    \* the last facade call and what it returned

vars == <<row, ret, out, nones, hist, encoded, other, args, parser,
          configured, result>>

scanner_vars == <<row, ret, out, nones, hist, encoded>>
facade_vars  == <<args, parser, configured, result>>

NoCall == [call |-> "none"]

\* no facade call is made
FacadeIdle ==
    /\ args = [s |-> <<>>, sep |-> Comma, T |-> 1]
    /\ parser = CSVLine_new
    /\ configured = FALSE
    /\ result = NoCall

Fresh(r) == [row |-> r, ret |-> None, out |-> <<>>, nones |-> 0, calls |-> 0]

\* there is no second row
OtherIdle == other = Fresh(new(<<>>, Comma))

InitRaw ==
    \E line \in Lines(Alphabet, MaxLen), d \in Delimiters :
        /\ row = new(line, d)
        /\ encoded = <<>>

InitEncoded ==
    \E fs \in Records, d \in EncodingDelimiters :
        /\ row = new(EncodeRecord(fs, d), d)
        /\ encoded = fs

Init ==
    /\ InitRaw \/ InitEncoded
    /\ ret = None
    /\ out = <<>>
    /\ nones = 0
    /\ hist = <<>>
    /\ OtherIdle
    /\ FacadeIdle

\* one call of next() by the owner of the row
Call ==
    /\ ret.tag # "Panic"
    /\ nones < MaxNone
    /\ LET r == next(row)
       IN  /\ row' = r.self
           /\ ret' = r.ret
           /\ out' = IF r.ret.tag = "Some" THEN Append(out, r.ret.val) ELSE out
           /\ nones' = IF r.ret.tag = "None" THEN nones + 1 ELSE nones
           /\ hist' = Append(hist,
                  [entry |-> row,
                   read  |-> scan([row EXCEPT !.column_needs_unescaping = FALSE],
                                  NewField),
                   ret   |-> r.ret,
                   exit  |-> r.self])
    /\ UNCHANGED <<encoded, other>>
    /\ UNCHANGED facade_vars

Next == Call

Spec == Init /\ [][Next]_vars

---------------------------------------------------------------------------
\* Two rows, each with its own owner, their calls of next() interleaved.
InitPair ==
    /\ \E l1 \in Lines(PairAlphabet, MaxPairLen), d1 \in PairDelimiters :
          row = new(l1, d1)
    /\ \E l2 \in Lines(PairAlphabet, MaxPairLen), d2 \in PairDelimiters :
          other = Fresh(new(l2, d2))
    /\ encoded = <<>>
    /\ ret = None
    /\ out = <<>>
    /\ nones = 0
    /\ hist = <<>>
    /\ FacadeIdle

\* a call of the other row that also ends the first row (one done flag for
\* both)
CallOther_shares_done ==
    /\ other.ret.tag # "Panic"
    /\ other.nones < MaxNone
    /\ LET r == next(other.row)
       IN  /\ other' = [row   |-> r.self,
                        ret   |-> r.ret,
                        out   |-> IF r.ret.tag = "Some"
                                  THEN Append(other.out, r.ret.val)
                                  ELSE other.out,
                        nones |-> IF r.ret.tag = "None"
                                  THEN other.nones + 1 ELSE other.nones,
                        calls |-> other.calls + 1]
           /\ row' = [row EXCEPT !.done = r.self.done]
    /\ UNCHANGED <<ret, out, nones, hist, encoded>>
    /\ UNCHANGED facade_vars

\* one call of next() on the other row, by its owner
CallOther ==
    /\ other.ret.tag # "Panic"
    /\ other.nones < MaxNone
    /\ LET r == next(other.row)
       IN  other' = [row   |-> r.self,
                     ret   |-> r.ret,
                     out   |-> IF r.ret.tag = "Some"
                               THEN Append(other.out, r.ret.val)
                               ELSE other.out,
                     nones |-> IF r.ret.tag = "None"
                               THEN other.nones + 1 ELSE other.nones,
                     calls |-> other.calls + 1]
    /\ UNCHANGED scanner_vars
    /\ UNCHANGED facade_vars

NextPair == Call \/ CallOther

SpecPair == InitPair /\ [][NextPair]_vars

---------------------------------------------------------------------------
\* The facade: a caller holding a CSVLine and a line.
InitFacade ==
    /\ \E s \in Lines(Alphabet, MaxFacadeLen), sep \in Delimiters,
          T \in 1..MaxArity :
          args = [s |-> s, sep |-> sep, T |-> T]
    /\ parser = CSVLine_new
    /\ configured = FALSE
    /\ result = NoCall
    /\ row = new(<<>>, Comma)
    /\ encoded = <<>>
    /\ ret = None
    /\ out = <<>>
    /\ nones = 0
    /\ hist = <<>>
    /\ OtherIdle

\* parser = parser.with_separator(sep)
WithSeparator ==
    /\ parser' = with_separator(parser, args.sep)
    /\ configured' = TRUE
    /\ UNCHANGED <<args, result, other>>
    /\ UNCHANGED scanner_vars

\* parser.decode_str(s)
DecodeStr ==
    /\ result' = [call |-> "decode_str", separator |-> parser.separator,
                  value |-> decode_str(parser, args.s, args.T)]
    /\ UNCHANGED <<args, parser, configured, other>>
    /\ UNCHANGED scanner_vars

\* csv_line::from_str(s)
FromStr ==
    /\ result' = [call |-> "from_str", separator |-> Comma,
                  value |-> from_str(args.s, args.T)]
    /\ UNCHANGED <<args, parser, configured, other>>
    /\ UNCHANGED scanner_vars

\* csv_line::from_str_sep(s, sep)
FromStrSep ==
    /\ result' = [call |-> "from_str_sep", separator |-> args.sep,
                  value |-> from_str_sep(args.s, args.sep, args.T)]
    /\ UNCHANGED <<args, parser, configured, other>>
    /\ UNCHANGED scanner_vars

NextFacade == WithSeparator \/ DecodeStr \/ FromStr \/ FromStrSep

SpecFacade == InitFacade /\ [][NextFacade]_vars

---------------------------------------------------------------------------
\* Observers used by the properties.
line      == row.line
delimiter == row.delimiter
Strs(cs)  == [i \in 1..Len(cs) |-> cs[i].str]
\* a call has returned None / the iteration is over
Exhausted == nones > 0
Finished  == nones > 0 \/ ret.tag = "Panic"
Has(s, c) == \E i \in 1..Len(s) : s[i] = c
Last(s)   == s[Len(s)]
\* the characters of the line a call consumed
Consumed(h) == SubSeq(line, h.entry.char_indices + 1, h.exit.char_indices)

Count(s, c) == Cardinality({i \in 1..Len(s) : s[i] = c})
Calls     == 1..Len(hist)
Reads(k)  == 1..Len(hist[k].read)
\* the text of the line between two character counts
Chars(from, to) == SubSeq(line, from + 1, to)

---------------------------------------------------------------------------
\* C1: a non-empty line without quote, CR or LF, scanned to exhaustion with
\* a delimiter other than quote, CR and LF, yields exactly the line split at
\* every delimiter, leading and final empty fields included.
C1_Plain ==
    /\ line # <<>>
    /\ ~Has(line, Quote) /\ ~Has(line, LF) /\ ~Has(line, CR)
    /\ delimiter \notin {Quote, LF, CR}

C1_PlainSplit ==
    (Finished /\ C1_Plain) =>
        /\ ret = None
        /\ Strs(out) = Split(line, delimiter)

C1_Witness ==
    /\ Exhausted /\ C1_Plain
    /\ Len(line) >= 3
    /\ line[1] = delimiter /\ Last(line) = delimiter
    /\ Len(out) >= 3
    /\ out[1].str = <<>> /\ Last(out).str = <<>>

\* C2: round trip: a non-empty sequence of fields over an alphabet with the
\* delimiter, the quote, CR and LF, each wrapped in quotes with its quotes
\* doubled and joined by the delimiter, scans back to the same fields.
C2_RoundTrip ==
    (Finished /\ encoded # <<>>) =>
        /\ ret = None
        /\ Strs(out) = encoded

C2_Witness ==
    /\ Exhausted
    /\ Len(encoded) = 2
    /\ Has(encoded[1], delimiter)
    /\ Has(encoded[2], Quote) /\ Has(encoded[2], LF)
    /\ Strs(out) = encoded

\* C3 (as stated): scanning the empty line yields exactly one field, the
\* empty string, and not zero fields.
C3_EmptyLineOneField ==
    (Exhausted /\ line = <<>>) => Strs(out) = << <<>> >>

\* C3 (amended): scanning the empty line yields no field: the first call of
\* next() returns None and marks the row done.
C3_EmptyLineNoField ==
    (line = <<>> /\ hist # <<>>) =>
        /\ hist[1].ret = None
        /\ row.done
        /\ out = <<>>

C3_Witness == line = <<>> /\ Exhausted /\ Len(hist) >= 1

\* C4: with a delimiter other than CR and LF, a CR or LF read in state
\* UnquotedField ends the call: the field returned is the borrowed slice from
\* the field's first character up to, excluding, that character; the row is
\* done; no later call returns a field, whatever follows the line break.
C4_LineBreakAt(k, i) ==
    /\ hist[k].read[i].state = "UnquotedField"
    /\ hist[k].read[i].ch \in {CR, LF}

C4_LineBreakEndsUnquoted ==
    delimiter \notin {CR, LF} =>
        \A k \in Calls : \A i \in Reads(k) :
            C4_LineBreakAt(k, i) =>
                /\ i = Len(hist[k].read)
                /\ hist[k].ret = Some(Borrowed(
                       Chars(hist[k].entry.char_indices,
                             hist[k].exit.char_indices - 1)))
                /\ hist[k].exit.done
                /\ \A j \in Calls : j > k => hist[j].ret = None

C4_Witness ==
    /\ delimiter = Comma
    /\ \E k \in Calls : \E i \in Reads(k) :
          /\ C4_LineBreakAt(k, i)
          /\ Len(hist) > k
          /\ hist[k].exit.char_indices < Len(line)
          /\ LET rest == Chars(hist[k].exit.char_indices, Len(line))
             IN  Has(rest, Comma) /\ Has(rest, Quote)

\* C5 (as stated): a CR or LF that is not inside a quoted field ends the
\* record wherever it occurs: the call that reads it returns at once and marks
\* the row done, and no field of a line without quotes holds a CR or LF.
C5_LineBreakAlwaysTerminates ==
    /\ \A k \in Calls : \A i \in Reads(k) :
          (hist[k].read[i].ch \in {CR, LF} /\ hist[k].read[i].state # "QuotedField")
              => (i = Len(hist[k].read) /\ hist[k].exit.done)
    /\ ~Has(line, Quote) =>
          \A n \in 1..Len(out) : ~Has(out[n].str, CR) /\ ~Has(out[n].str, LF)

\* C6: a CR or LF read in state QuotedField is content: the loop goes on
\* after it (the row is not marked done by it), the field returned holds it,
\* and when that field is closed by quote and delimiter the row is not done
\* and the next call returns the field that follows.
C6_QuotedBreaks(k, c) ==
    Cardinality({i \in Reads(k) :
        hist[k].read[i].state = "QuotedField" /\ hist[k].read[i].ch = c})

C6_ClosedByDelimiter(k) ==
    /\ Last(hist[k].read).state = "QuoteInQuotedField"
    /\ Last(hist[k].read).ch = delimiter

C6_LineBreakInQuotes ==
    \A k \in Calls : \A c \in {CR, LF} :
        C6_QuotedBreaks(k, c) > 0 =>
            /\ \A i \in Reads(k) :
                  (hist[k].read[i].state = "QuotedField" /\ hist[k].read[i].ch = c)
                      => i < Len(hist[k].read)
            /\ hist[k].ret.tag = "Some"
            /\ Count(hist[k].ret.val.str, c) >= C6_QuotedBreaks(k, c)
            /\ C6_ClosedByDelimiter(k) =>
                  /\ ~hist[k].exit.done
                  /\ k < Len(hist) => hist[k + 1].ret.tag = "Some"

C6_Witness ==
    \E k \in Calls :
        /\ C6_QuotedBreaks(k, LF) > 0
        /\ C6_QuotedBreaks(k, CR) > 0
        /\ C6_ClosedByDelimiter(k)
        /\ hist[k].ret = Some(Borrowed(<<CR, LF>>))
        /\ k < Len(hist)
        /\ hist[k + 1].ret.tag = "Some"
        /\ hist[k + 1].ret.val.str # <<>>

\* C7: the sequence is finite and not restartable: a call that returned None,
\* or returned the field that ended the line (at a CR/LF or at the end of the
\* input), leaves the row done, and every later call returns None and leaves
\* it done.
C7_EndedLine(h) ==
    /\ h.read # <<>>
    /\ \/ Last(h.read).ch = EOF
       \/ /\ Last(h.read).ch \in {CR, LF}
          /\ Last(h.read).ch # delimiter
          /\ Last(h.read).state \in {"UnquotedField", "QuoteInQuotedField"}

C7_DoneIsFinal ==
    \A k \in Calls :
        /\ (hist[k].ret = None \/ C7_EndedLine(hist[k]) \/ hist[k].entry.done) =>
              /\ hist[k].exit.done
              /\ \A j \in Calls : j > k =>
                    hist[j].ret = None /\ hist[j].exit.done
        /\ k = Len(hist) => row = hist[k].exit

C7_Witness ==
    /\ Len(hist) >= 3
    /\ hist[Len(hist) - 2].ret.tag = "Some"
    /\ C7_EndedLine(hist[Len(hist) - 2])
    /\ Last(hist[Len(hist) - 2].read).ch = EOF
    /\ hist[Len(hist) - 1].ret = None
    /\ hist[Len(hist)].ret = None
    /\ Last(line) = delimiter

\* C8: the scanner is total: whatever the line and the delimiter (quote, CR,
\* LF and two-byte delimiters included) every call returns a field or None;
\* no slice it takes has its start after its end, an end past the line, or an
\* end off a character boundary.
C8_Total ==
    /\ ret.tag \in {"None", "Some"}
    /\ \A k \in Calls : hist[k].ret.tag \in {"None", "Some"}

C8_Witness ==
    /\ Exhausted
    /\ delimiter = EAcute
    /\ Len(out) >= 2
    /\ \E k \in Calls : \E i \in Reads(k) :
          hist[k].read[i].state = "UnquotedDataAfterQuotedField"

\* C9: delimiter independence: for a delimiter d other than quote, CR and LF
\* (two-byte delimiters included), the fields of a line scanned with d are
\* the fields of the line with d and comma swapped, scanned with comma, with
\* d and comma swapped back inside the fields.
C9_Swap(c, d) == IF c = d THEN Comma ELSE IF c = Comma THEN d ELSE c
C9_SwapStr(s, d) == [i \in 1..Len(s) |-> C9_Swap(s[i], d)]
C9_SwapAll(fs, d) == [n \in 1..Len(fs) |-> C9_SwapStr(fs[n], d)]

C9_DelimiterIndependence ==
    (Finished /\ delimiter \notin {Quote, CR, LF}) =>
        /\ ret = None
        /\ Strs(out) =
             C9_SwapAll(collect(new(C9_SwapStr(line, delimiter), Comma)), delimiter)

C9_Witness ==
    /\ Exhausted
    /\ delimiter = EAcute
    /\ Has(line, Comma) /\ Has(line, Quote)
    /\ Len(out) >= 2
    /\ \E n \in 1..Len(out) : Has(out[n].str, Comma)

\* C10: allocation policy: a field is a borrowed slice of the line exactly
\* when the call that produced it read no escape pair (a quote in state
\* QuoteInQuotedField) and no data after a closing quote; otherwise it is an
\* owned copy.
C10_EscapeSeen(h) ==
    \E i \in 1..Len(h.read) :
        h.read[i].state = "QuoteInQuotedField" /\ h.read[i].ch = Quote

C10_TrailingData(h) ==
    \E i \in 1..Len(h.read) : h.read[i].state = "UnquotedDataAfterQuotedField"

C10_IsSlice(s) ==
    \E a \in 0..Len(line) : \E b \in a..Len(line) : s = Chars(a, b)

C10_AllocationPolicy ==
    \A k \in Calls :
        hist[k].ret.tag = "Some" =>
            /\ hist[k].ret.val.tag \in {"Borrowed", "Owned"}
            /\ hist[k].ret.val.tag = "Borrowed"
                  <=> (~C10_EscapeSeen(hist[k]) /\ ~C10_TrailingData(hist[k]))
            /\ hist[k].ret.val.tag = "Borrowed" => C10_IsSlice(hist[k].ret.val.str)

C10_Witness ==
    /\ \E k \in Calls :
          /\ hist[k].ret.tag = "Some"
          /\ hist[k].ret.val.tag = "Borrowed"
          /\ hist[k].read[1].state = "NewField" /\ hist[k].read[1].ch = Quote
          /\ hist[k].ret.val.str # <<>>
    /\ \E k \in Calls :
          /\ hist[k].ret.tag = "Some"
          /\ hist[k].ret.val.tag = "Owned"
          /\ C10_EscapeSeen(hist[k])

---------------------------------------------------------------------------
\* C11: the entry points agree: from_str(s) returns what from_str_sep(s, ',')
\* and CSVLine::new().decode_str(s) return; from_str_sep(s, d) returns what
\* CSVLine::new().with_separator(d).decode_str(s) returns; the parser's
\* separator is the comma until with_separator sets it, and decode_str leaves
\* it as it is.
C11_EntryPointsAgree ==
    /\ parser.separator = (IF configured THEN args.sep ELSE Comma)
    /\ result.call = "from_str" =>
          /\ result.value = from_str_sep(args.s, Comma, args.T)
          /\ result.value = decode_str(CSVLine_new, args.s, args.T)
    /\ result.call = "from_str_sep" =>
          result.value =
              decode_str(with_separator(CSVLine_new, args.sep), args.s, args.T)
    /\ result.call = "decode_str" =>
          /\ result.separator \in {Comma, args.sep}
          /\ result.value = from_str_sep(args.s, result.separator, args.T)
          /\ result.separator = Comma => result.value = from_str(args.s, args.T)

C11_Witness ==
    /\ configured
    /\ args.sep = EAcute
    /\ Has(args.s, Comma) /\ Has(args.s, EAcute)
    /\ result.call = "decode_str"
    /\ result.separator = EAcute
    /\ result.value.tag = "Ok"
    /\ result.value # from_str(args.s, args.T)

\* C12: decode_str returns Ok(value) exactly when the deserializer succeeds on
\* the record of the scanner's fields, and otherwise the one error kind
\* Error::Csv wrapping the deserializer's error unchanged; scanning adds no
\* error of its own and an error carries no value.
C12_DecodeResult ==
    result.call # "none" =>
        LET fields == collect(new(args.s, result.separator))
            d      == deserialize(fields, args.T)
        IN  /\ result.value.tag \in {"Ok", "Err"}
            /\ result.value.tag = "Ok" <=> d.tag = "Ok"
            /\ d.tag = "Ok" => result.value = [tag |-> "Ok", val |-> d.val]
            /\ d.tag = "Err" =>
                  result.value =
                      [tag |-> "Err", err |-> [kind |-> "Csv", source |-> d.err]]

C12_Witness ==
    /\ result.call = "from_str_sep"
    /\ result.value.tag = "Err"
    /\ result.value.err.kind = "Csv"
    /\ result.value.err.source.expected = 2
    /\ result.value.err.source.found = 1
    /\ Has(args.s, Comma) /\ args.sep = EAcute

\* C13: two rows do not interfere: however their calls of next() are
\* interleaved, each row is in the state, and has returned the fields, that
\* the same number of calls gives when it is iterated alone.
RECURSIVE C13_After(_, _)
C13_After(self, n) == IF n = 0 THEN self ELSE C13_After(next(self).self, n - 1)

C13_AsAlone(r, fields, n, finished) ==
    LET alone == collect(new(r.line, r.delimiter))
    IN  /\ r = C13_After(new(r.line, r.delimiter), n)
        /\ Len(fields) <= Len(alone)
        /\ Strs(fields) = SubSeq(alone, 1, Len(fields))
        /\ finished => Len(fields) = Len(alone)

C13_NoInterference ==
    /\ C13_AsAlone(row, out, Len(hist), nones > 0)
    /\ C13_AsAlone(other.row, other.out, other.calls, other.nones > 0)

C13_Witness ==
    /\ row.line # other.row.line
    /\ Len(hist) = 1 /\ other.calls = 1
    /\ Len(out) = 1 /\ Len(other.out) = 1
    /\ ~row.done /\ ~other.row.done
    /\ row.char_indices # other.row.char_indices

---------------------------------------------------------------------------
\* What a call read of a field that opened with a quote (h is an entry of
\* hist; h.read[1] is the opening quote).
IsQuotedCall(h) == Len(h.read) >= 2 /\ h.read[2].state = "QuotedField"

\* index in h.read of the first character of the data after the closing
\* quote, 0 when there is none
TrailingAt(h) ==
    LET is == {i \in 1..(Len(h.read) - 1) :
                  h.read[i + 1].state = "UnquotedDataAfterQuotedField"}
    IN  IF is = {} THEN 0 ELSE CHOOSE i \in is : \A j \in is : i <= j

\* index in h.read of the last character between the quotes
ContentEnd(h) ==
    IF TrailingAt(h) > 0 THEN TrailingAt(h) - 2
    ELSE IF Last(h.read).state = "QuoteInQuotedField" THEN Len(h.read) - 2
    ELSE Len(h.read) - 1

\* the second quote of an escape pair: a quote read in QuoteInQuotedField
IsEscape(h, j) ==
    h.read[j].state = "QuoteInQuotedField" /\ h.read[j].ch = Quote

\* the characters read at from..to, the second quote of each pair left out
RECURSIVE Kept(_, _, _)
Kept(h, from, to) ==
    IF from > to THEN <<>>
    ELSE (IF IsEscape(h, from) THEN <<>> ELSE <<h.read[from].ch>>)
         \o Kept(h, from + 1, to)

\* the characters read at from..to
ReadChars(h, from, to) == [j \in 1..(to - from + 1) |-> h.read[from + j - 1].ch]

\* C14: the end of the input in state NewField: the call returns one empty
\* field when the previous call returned at a delimiter that is the last
\* character of the line, and None otherwise; so k delimiters give k+1 empty
\* fields, and a line that does not end in a delimiter, or whose final
\* delimiter lies inside an unterminated quoted field, gets no extra field.
C14_AtEndInNewField(k) ==
    /\ Len(hist[k].read) = 1
    /\ hist[k].read[1].state = "NewField"
    /\ hist[k].read[1].ch = EOF

C14_ClosedByLastDelimiter(k) ==
    /\ k >= 1
    /\ hist[k].ret.tag = "Some"
    /\ hist[k].exit.char_indices = Len(line)
    /\ hist[k].read # <<>>
    /\ Last(hist[k].read).ch = delimiter
    /\ Last(hist[k].read).state # "QuotedField"

C14_FinalEmptyField ==
    /\ \A k \in Calls :
          C14_AtEndInNewField(k) =>
              /\ hist[k].ret = (IF k > 1 /\ C14_ClosedByLastDelimiter(k - 1)
                                THEN Some(Borrowed(<<>>)) ELSE None)
              /\ hist[k].exit.done
    /\ \A k \in Calls :
          (C14_ClosedByLastDelimiter(k) /\ k < Len(hist)) =>
              /\ C14_AtEndInNewField(k + 1)
              /\ hist[k + 1].ret = Some(Borrowed(<<>>))
              /\ \A j \in Calls : j > k + 1 => hist[j].ret = None
    /\ (Exhausted /\ line # <<>> /\ \A i \in 1..Len(line) : line[i] = delimiter) =>
          Strs(out) = [n \in 1..(Len(line) + 1) |-> <<>>]
    /\ (Exhausted /\ (line = <<>> \/ Last(line) # delimiter)) =>
          \A k \in Calls : C14_AtEndInNewField(k) => hist[k].ret = None
    /\ \A k \in Calls :
          (/\ hist[k].read # <<>>
           /\ Last(hist[k].read).ch = EOF
           /\ Last(hist[k].read).state = "QuotedField"
           /\ Last(line) = delimiter) =>
              /\ hist[k].ret.tag = "Some"
              /\ Last(hist[k].ret.val.str) = delimiter
              /\ \A j \in Calls : j > k => hist[j].ret = None

C14_Witness ==
    /\ Exhausted
    /\ Len(line) = 3
    /\ \A i \in 1..Len(line) : line[i] = delimiter
    /\ Len(out) = 4
    /\ C14_AtEndInNewField(4)

\* C15: data after a closing quote: when the quote that closes a quoted field
\* is followed by a character other than quote, delimiter, CR and LF, the
\* field returned is the unescaped quoted content followed by the text from
\* that character up to, excluding, the next delimiter or the end of the
\* line, quotes in that text kept as they are.
C15_DataAfterQuote ==
    \A k \in Calls :
        LET h == hist[k]
            t == TrailingAt(h)
        IN  /\ \A i \in 1..Len(h.read) :
                  (/\ h.read[i].state = "QuoteInQuotedField"
                   /\ h.read[i].ch \notin {Quote, delimiter, CR, LF, EOF})
                      => t = i
            /\ t > 0 =>
                  /\ IsQuotedCall(h)
                  /\ h.read[t].ch \notin {Quote, delimiter, CR, LF, EOF}
                  /\ h.read[t - 1].ch = Quote
                  /\ Last(h.read).ch \in {delimiter, EOF}
                  /\ \A j \in t..(Len(h.read) - 1) : h.read[j].ch # delimiter
                  /\ h.ret = Some(Owned(Kept(h, 2, t - 2)
                                        \o ReadChars(h, t, Len(h.read) - 1)))

C15_Witness ==
    \E k \in Calls :
        /\ TrailingAt(hist[k]) > 0
        /\ Has(ReadChars(hist[k], TrailingAt(hist[k]), Len(hist[k].read) - 1), Quote)
        /\ hist[k].ret = Some(Owned(<<Letter, Quote>>))
        /\ k < Len(hist)

\* C16: an unterminated quote: a field that opens with a quote and meets the
\* end of the line before its closing quote is returned as one last field,
\* everything after the opening quote with escape pairs collapsed and
\* delimiters, CR and LF kept; the row is then done and no field follows.
C16_Unterminated(h) ==
    /\ h.read # <<>>
    /\ Last(h.read).state = "QuotedField"
    /\ Last(h.read).ch = EOF

C16_UnterminatedQuote ==
    \A k \in Calls :
        C16_Unterminated(hist[k]) =>
            /\ hist[k].ret.tag = "Some"
            /\ hist[k].ret.val.str = Kept(hist[k], 2, Len(hist[k].read) - 1)
            /\ hist[k].exit.done
            /\ hist[k].exit.char_indices = Len(line)
            /\ \A j \in Calls : j > k => hist[j].ret = None

C16_Witness ==
    \E k \in Calls :
        /\ C16_Unterminated(hist[k])
        /\ Has(hist[k].ret.val.str, Quote)
        /\ Has(hist[k].ret.val.str, delimiter)
        /\ hist[k].ret.val.tag = "Owned"
        /\ k < Len(hist)

\* C17: stray quotes in an unquoted field: in a field whose first character
\* is neither a quote nor the delimiter every later quote is content: the
\* state stays UnquotedField, doubled quotes are not collapsed, and the first
\* delimiter, CR or LF (or the end of the line) ends the field.
C17_Unquoted(h) ==
    /\ h.read # <<>>
    /\ h.read[1].state = "NewField"
    /\ h.read[1].ch \notin {Quote, delimiter, EOF}

C17_StrayQuotes ==
    \A k \in Calls :
        C17_Unquoted(hist[k]) =>
            LET h == hist[k]
                n == Len(h.read)
            IN  /\ n >= 2
                /\ \A j \in 2..n : h.read[j].state = "UnquotedField"
                /\ \A j \in 2..(n - 1) : h.read[j].ch \notin {delimiter, CR, LF}
                /\ Last(h.read).ch \in {delimiter, CR, LF, EOF}
                /\ h.ret = Some(Borrowed(ReadChars(h, 1, n - 1)))

C17_Witness ==
    \E k \in Calls :
        /\ C17_Unquoted(hist[k])
        /\ Len(hist[k].read) = 4
        /\ hist[k].read[2].ch = Quote /\ hist[k].read[3].ch = Quote
        /\ Last(hist[k].read).ch = delimiter
        /\ hist[k].ret.val.str = <<Letter, Quote, Quote>>

\* C18: un-escaping agrees with the state machine: the quoted content of a
\* returned field is the text between the quotes with the second quote of
\* every escape pair the state machine recognised left out, and nothing else
\* changed: one quote per pair and no other.
C18_Pairs(h) == Cardinality({j \in 2..ContentEnd(h) : IsEscape(h, j)})

C18_UnescapeAgrees ==
    \A k \in Calls :
        IsQuotedCall(hist[k]) =>
            LET h       == hist[k]
                content == Kept(h, 2, ContentEnd(h))
                rest    == IF TrailingAt(h) > 0
                           THEN ReadChars(h, TrailingAt(h), Len(h.read) - 1)
                           ELSE <<>>
            IN  /\ h.ret.tag = "Some"
                /\ h.ret.val.str = content \o rest
                /\ Count(content, Quote) = C18_Pairs(h)
                /\ Len(content) = ContentEnd(h) - 1 - C18_Pairs(h)

C18_Witness ==
    \E k \in Calls :
        /\ IsQuotedCall(hist[k])
        /\ C18_Pairs(hist[k]) = 1
        /\ hist[k].ret = Some(Owned(<<Letter, Quote, Letter>>))
        /\ Last(hist[k].read).state = "QuoteInQuotedField"

\* C19: per-field reset: every call starts in state NewField with
\* column_needs_unescaping cleared: what it returns and how it leaves the row
\* do not depend on the flag left by the previous field, so a field without
\* an escape pair and without trailing data is borrowed even right after a
\* field that was un-escaped.
C19_With(self, flag) == [self EXCEPT !.column_needs_unescaping = flag]

C19_PerFieldReset ==
    \A k \in Calls :
        LET h == hist[k]
        IN  /\ h.read # <<>> => h.read[1].state = "NewField"
            /\ h.ret = next(C19_With(h.entry, TRUE)).ret
            /\ h.ret = next(C19_With(h.entry, FALSE)).ret
            /\ h.exit = next(C19_With(h.entry, TRUE)).self
            /\ h.exit = next(C19_With(h.entry, FALSE)).self
            /\ (/\ h.ret.tag = "Some"
                /\ \A j \in 1..Len(h.read) : ~IsEscape(h, j)
                /\ TrailingAt(h) = 0)
                  => h.ret.val.tag = "Borrowed"

C19_Witness ==
    \E k \in Calls :
        /\ hist[k].entry.column_needs_unescaping
        /\ IsQuotedCall(hist[k])
        /\ hist[k].ret = Some(Borrowed(<<Letter>>))

\* C20: single pass and termination: every call consumes at least one
\* character or leaves the row done; the cursor and column_start never move
\* backwards and each call starts where the previous one stopped; so a line
\* of n characters is done after at most n+1 calls and yields at most n+1
\* fields.
C20_SinglePass ==
    /\ \A k \in Calls :
          /\ hist[k].exit.char_indices > hist[k].entry.char_indices
                \/ hist[k].exit.done
          /\ hist[k].exit.char_indices >= hist[k].entry.char_indices
          /\ hist[k].exit.char_indices <= Len(line)
          /\ hist[k].exit.column_start >= hist[k].entry.column_start
          /\ Len(hist[k].read) <=
                hist[k].exit.char_indices - hist[k].entry.char_indices + 1
          /\ k > 1 => hist[k].entry = hist[k - 1].exit
          /\ k = 1 => hist[k].entry.char_indices = 0
    /\ Len(hist) > Len(line) => row.done
    /\ Len(out) <= Len(line) + 1

C20_Witness ==
    /\ Exhausted
    /\ Len(line) = 3
    /\ Len(out) = 4
    /\ Len(hist) = 5
    /\ ~hist[3].exit.done /\ hist[4].exit.done

\* The source range of the field call k returned, as character indices of
\* the line (read[j] is the character at index entry.char_indices + j): from
\* the first character of the field, after the opening quote of a quoted one,
\* to the last one before the terminator, before the closing quote when the
\* quote is followed by the terminator.
C21_From(k) ==
    hist[k].entry.char_indices + 1 + (IF IsQuotedCall(hist[k]) THEN 1 ELSE 0)

C21_To(k) ==
    hist[k].entry.char_indices +
        (IF IsQuotedCall(hist[k]) /\ TrailingAt(hist[k]) = 0
         THEN ContentEnd(hist[k])
         ELSE Len(hist[k].read) - 1)

\* what lies between the ranges of calls k and k + 1
C21_Gap(k) == SubSeq(line, C21_To(k) + 1, C21_From(k + 1) - 1)

C21_Closed(k) ==
    /\ IsQuotedCall(hist[k])
    /\ TrailingAt(hist[k]) = 0
    /\ Last(hist[k].read).state = "QuoteInQuotedField"

\* C21: fields are produced in left-to-right order: each field is taken from
\* its own range of the line, the ranges of successive fields are disjoint
\* and increasing, between two consecutive ranges lies exactly one delimiter
\* (with the closing quote of the field before it and the opening quote of
\* the field after it), and the record decode_str builds holds the fields in
\* that same order.
C21_LeftToRight ==
    /\ \A k \in Calls :
          hist[k].ret.tag = "Some" =>
              /\ 1 <= C21_From(k)
              /\ C21_From(k) <= C21_To(k) + 1
              /\ C21_To(k) <= Len(line)
              /\ k <= Len(out) /\ out[k] = hist[k].ret.val
              /\ hist[k].ret.val.tag = "Borrowed" =>
                    hist[k].ret.val.str = SubSeq(line, C21_From(k), C21_To(k))
              /\ Len(hist[k].ret.val.str) <= C21_To(k) - C21_From(k) + 1
    /\ \A k \in Calls :
          (k < Len(hist) /\ hist[k + 1].ret.tag = "Some") =>
              /\ hist[k].ret.tag = "Some"
              /\ C21_To(k) < C21_From(k + 1)
              /\ C21_From(k) < C21_From(k + 1)
              /\ C21_Gap(k) =
                    (IF C21_Closed(k) THEN <<Quote>> ELSE <<>>)
                    \o <<delimiter>>
                    \o (IF IsQuotedCall(hist[k + 1]) THEN <<Quote>> ELSE <<>>)
    /\ LET record == collect(new(line, delimiter))
       IN  /\ Len(out) <= Len(record)
           /\ \A k \in 1..Len(out) : record[k] = out[k].str
    /\ Exhausted =>
          decode_str([separator |-> delimiter], line, Len(out)) = Ok(Strs(out))

C21_Witness ==
    /\ Exhausted
    /\ Len(out) = 2
    /\ C21_Closed(1)
    /\ C21_Gap(1) = <<Quote, delimiter>>
    /\ out[1].str # out[2].str
    /\ decode_str([separator |-> delimiter], line, 2) = Ok(Strs(out))

\* the character of the line at byte offset b (EOF at the end of the line or
\* when b is not the offset of a character)
C22_CharAt(b) ==
    LET ns == {n \in 0..(Len(line) - 1) : byte_offset(line, n) = b}
    IN  IF ns = {} THEN EOF ELSE line[(CHOOSE n \in ns : TRUE) + 1]

C22_QuotedStates ==
    {"QuotedField", "QuoteInQuotedField", "UnquotedDataAfterQuotedField"}

\* C22: cursor invariant: whenever next() is entered with done false,
\* column_start is the byte offset of the next character char_indices yields:
\* 0 at first, and after a field ended by a delimiter the delimiter's offset
\* plus its encoded length, whatever that length; so the character at
\* column_start is the first character of the field being produced, and it is
\* the opening quote whenever the call is in a quoted state.
C22_CursorInvariant ==
    /\ ~row.done => row.column_start = byte_offset(line, row.char_indices)
    /\ \A k \in Calls :
          LET h == hist[k]
          IN  ~h.entry.done =>
                /\ h.entry.column_start = byte_offset(line, h.entry.char_indices)
                /\ k = 1 => h.entry.column_start = 0
                /\ k > 1 =>
                      /\ Last(hist[k - 1].read).ch = delimiter
                      /\ h.entry.column_start =
                            Last(hist[k - 1].read).ch_pos + len_utf8(delimiter)
                /\ h.read # <<>>
                /\ h.read[1].ch_pos = h.entry.column_start
                /\ h.read[1].ch = C22_CharAt(h.entry.column_start)
                /\ \A j \in 1..Len(h.read) :
                      h.read[j].state \in C22_QuotedStates =>
                          C22_CharAt(h.entry.column_start) = Quote

C22_Witness ==
    \E k \in Calls :
        /\ k > 1
        /\ ~hist[k].entry.done
        /\ len_utf8(delimiter) = 2
        /\ hist[k].entry.column_start > hist[k].entry.char_indices
        /\ \E j \in 1..Len(hist[k].read) :
              hist[k].read[j].state = "QuoteInQuotedField"

====
